---- MODULE Spec2Model ----
(***************************************************************************)
(* Model of the Cloud-native monitoring application.                       *)
(*                                                                         *)
(*   eks.py  the provisioner: main() applies Namespace, ConfigMap,         *)
(*           Deployment, Service and HorizontalPodAutoscaler in order,     *)
(*           each through a create_* function with its own try/except.     *)
(*   app.py  the monitoring service: get_alert_message and the routes.     *)
(*                                                                         *)
(* The cluster control plane is the environment: every API call is         *)
(* answered with an outcome drawn from what the cluster state allows or    *)
(* from the failures the client library can raise.                         *)
(***************************************************************************)
EXTENDS Integers, Sequences, FiniteSets, TLC

\* ------------------------------------------------------------------ bounds
\* Number of times main() is run, one after the other, by one process.
MaxRuns == 2

\* ------------------------------------------------------- program constants
\* eks.py:210  namespace = "monitoring"
namespace == "monitoring"

\* The five resource kinds, in the order main() applies them (eks.py:220-224).
Kinds == <<"Namespace", "ConfigMap", "Deployment", "Service", "AutoscalingPolicy">>
KindSet == {Kinds[i] : i \in DOMAIN Kinds}
Namespaced == KindSet \ {"Namespace"}

\* The processes that can run main().  Under Spec only p1 runs.
Procs == {"p1", "p2"}

VARIABLES
    cluster,        \* set of resource kinds that exist on the cluster
    pc,             \* pc[p]: where process p is in main()
    runNo,          \* runNo[p]: how many times p has started main()
    startCluster,   \* startCluster[p]: cluster when p's current run started
    calls,          \* calls[p]: control-plane calls of p's current run, in order
    out,            \* out[p]: lines printed by p's current run, in order
    failedIn,       \* failedIn[p]: state in which p's current run raised, or "none"
    prev,           \* prev[p]: summary of p's previous run
    objects,        \* objects[kind]: what the cluster stores for the kind
    cpu_metric,     \* app.py: last sampled CPU utilization, in tenths of a percent
    mem_metric,     \* app.py: last sampled memory utilization, in tenths
    disk_metric,    \* app.py: last sampled disk utilization, in tenths
    response        \* app.py: what the last request returned

provVars == <<cluster, pc, runNo, startCluster, calls, out, failedIn, prev,
              objects>>
appVars == <<cpu_metric, mem_metric, disk_metric, response>>
vars == <<cluster, pc, runNo, startCluster, calls, out, failedIn, prev, objects,
          cpu_metric, mem_metric, disk_metric, response>>

\* ------------------------------------------------------ the control plane
\* An outcome of a client call: it returned (exc = "none"), raised
\* client.exceptions.ApiException with an HTTP status, or raised another
\* exception (connection refused, DNS failure, timeout: urllib3 errors that
\* are not ApiException and carry no status).
Returned(status) == [exc |-> "none", status |-> status]
ApiException(status) == [exc |-> "ApiException", status |-> status]
OtherException == [exc |-> "Other", status |-> 0]

\* Failures the control plane can answer any call with, whatever the cluster
\* holds: forbidden, internal error, unreachable.
Faults == {ApiException(403), ApiException(500), OtherException}

\* Clusters that can exist: a namespaced resource lives in its namespace.
ValidCluster(c) == (c \cap Namespaced # {}) => "Namespace" \in c

\* read_namespace(name): the namespace, or 404 when there is none.
ReadOutcomes(c) ==
    Faults \cup {IF "Namespace" \in c THEN Returned(200) ELSE ApiException(404)}

\* create of `kind`: 404 when the namespace of a namespaced resource is
\* missing, 409 when the resource exists, 201 otherwise.
CreateOutcomes(c, kind) ==
    Faults \cup
    {IF kind \in Namespaced /\ "Namespace" \notin c THEN ApiException(404)
     ELSE IF kind \in c THEN ApiException(409)
     ELSE Returned(201)}

\* The cluster after a create call answered with outcome o.
Applied(c, kind, o) == IF o = Returned(201) THEN c \cup {kind} ELSE c

\* ------------------------------------------------------------- eks.py
\* What each create_* function does with the outcome of its API call:
\*   "created"  the call returned, the function prints its created line
\*   "exists"   the function prints its already-exists line and returns
\*   "create"   create_namespace goes on to create the namespace
\*   "silent"   the function returns without printing anything
\*   "raise"    an exception leaves the function

\* Mutant: the handler tests for 409, as the other create_* functions do.
read_namespace_result_409(o) ==
    IF o.exc = "none" THEN "exists"
    ELSE IF o.exc = "ApiException"
         THEN IF o.status = 409 THEN "create" ELSE "silent"
         ELSE "raise"

\* create_namespace, the read: try (15-16) / except ApiException (17-18).
\* There is no else branch after `if e.status == 404`: any other
\* ApiException falls off the end of the handler and the function returns.
read_namespace_result(o) ==
    IF o.exc = "none" THEN "exists"
    ELSE IF o.exc = "ApiException"
         THEN IF o.status = 404 THEN "create" ELSE "silent"
         ELSE "raise"

\* Mutant: a `raise e` closes the except block, after the create.
create_namespace_result_reraise(o) == "raise"

\* Mutant: a 409 on the create is taken as already-exists, as the other
\* create_* functions take it.
create_namespace_result_recover409(o) ==
    IF o.exc = "none" THEN "created"
    ELSE IF o.exc = "ApiException" /\ o.status = 409 THEN "exists"
    ELSE "raise"

\* create_namespace, the create inside the except block (19-23): nothing
\* catches an exception raised here.
create_namespace_result(o) ==
    IF o.exc = "none" THEN "created" ELSE "raise"

\* Mutant: the 409 test is missing, every ApiException is raised again.
create_configmap_result_no409(o) ==
    IF o.exc = "none" THEN "created" ELSE "raise"

\* create_configmap: try (37-42) / except ApiException (43-47).
create_configmap_result(o) ==
    IF o.exc = "none" THEN "created"
    ELSE IF o.exc = "ApiException"
         THEN IF o.status = 409 THEN "exists" ELSE "raise"
         ELSE "raise"

\* Mutant: the `else: raise e` is missing, as in create_namespace.
create_deployment_result_swallow(o) ==
    IF o.exc = "none" THEN "created"
    ELSE IF o.exc = "ApiException"
         THEN IF o.status = 409 THEN "exists" ELSE "silent"
         ELSE "raise"

\* create_deployment: try (119-124) / except ApiException (125-129).
create_deployment_result(o) ==
    IF o.exc = "none" THEN "created"
    ELSE IF o.exc = "ApiException"
         THEN IF o.status = 409 THEN "exists" ELSE "raise"
         ELSE "raise"

\* Mutant: the 409 test is missing, every ApiException is raised again.
create_service_result_no409(o) ==
    IF o.exc = "none" THEN "created" ELSE "raise"

\* create_service: try (152-157) / except ApiException (158-162).
create_service_result(o) ==
    IF o.exc = "none" THEN "created"
    ELSE IF o.exc = "ApiException"
         THEN IF o.status = 409 THEN "exists" ELSE "raise"
         ELSE "raise"

\* create_hpa: try (191-197) / except ApiException (198-202).
create_hpa_result(o) ==
    IF o.exc = "none" THEN "created"
    ELSE IF o.exc = "ApiException"
         THEN IF o.status = 409 THEN "exists" ELSE "raise"
         ELSE "raise"

\* Mutant: create_hpa calls through the api_instance it is given.
create_hpa_client_param(api_instance) == api_instance

\* The client create_hpa submits its call through.  main() passes None as
\* api_instance (224); create_hpa never uses the parameter and builds its own
\* client.AutoscalingV2Api() (192).
create_hpa_client(api_instance) == "AutoscalingV2Api"

\* main(), 220-226: the state after the step in state s returned normally.
main_next(s) ==
    CASE s = "CreatingNamespace"  -> "CreatingConfig"
      [] s = "CreatingConfig"     -> "CreatingDeployment"
      [] s = "CreatingDeployment" -> "CreatingService"
      [] s = "CreatingService"    -> "CreatingAutoscaler"
      [] s = "CreatingAutoscaler" -> "Done"

\* The lines printed by the create_* functions and by main().
CreatedLine(kind) ==
    CASE kind = "Namespace"         -> "Created namespace 'monitoring'"
      [] kind = "ConfigMap"         -> "ConfigMap created successfully"
      [] kind = "Deployment"        -> "Deployment created successfully"
      [] kind = "Service"           -> "Service created successfully"
      [] kind = "AutoscalingPolicy" -> "HPA created successfully"
ExistsLine(kind) ==
    CASE kind = "Namespace"         -> "Namespace 'monitoring' already exists"
      [] kind = "ConfigMap"         -> "ConfigMap already exists"
      [] kind = "Deployment"        -> "Deployment already exists"
      [] kind = "Service"           -> "Service already exists"
      [] kind = "AutoscalingPolicy" -> "HPA already exists"
StartLine == "Starting Kubernetes deployment..."
DoneLines == <<"Deployment completed successfully!",
               "Monitor your deployment with:",
               "kubectl get pods -n monitoring",
               "kubectl get services -n monitoring",
               "kubectl logs -f deployment/monitoring-app -n monitoring">>

\* The name of the API operation that creates `kind`.
CreateOp(kind) ==
    CASE kind = "Namespace"         -> "createNamespace"
      [] kind = "ConfigMap"         -> "createConfigMap"
      [] kind = "Deployment"        -> "createDeployment"
      [] kind = "Service"           -> "createService"
      [] kind = "AutoscalingPolicy" -> "createAutoscalingPolicy"

\* What a step that ended with result r leaves behind: the lines it printed
\* and where main() is afterwards (an exception leaves main(): Aborted).
LinesAfter(s, kind, r) ==
    (IF r = "created" THEN <<CreatedLine(kind)>>
     ELSE IF r = "exists" THEN <<ExistsLine(kind)>>
     ELSE <<>>)
    \o (IF r # "raise" /\ main_next(s) = "Done" THEN DoneLines ELSE <<>>)

\* Mutant: a step that raised is tried again instead of leaving main().
PcAfter_retry(s, r) == IF r = "raise" THEN s ELSE main_next(s)

PcAfter(s, r) == IF r = "raise" THEN "Aborted" ELSE main_next(s)

\* Mutant: create_service is called without the namespace variable.
namespace_arg_default(kind) == IF kind = "Service" THEN "default" ELSE namespace

\* main(), 220-224: the namespace argument of each create_* call
\* (namespace_name of create_namespace, namespace of the others).
namespace_arg(kind) == namespace

\* main(), 211: os.getenv("IMAGE_URI", <default>).
image_uri == "568373317874.dkr.ecr.us-east-1.amazonaws.com/my_monitoring_app_image:latest"

\* The body each create_* function builds and submits.
\* create_namespace, 19-21.
NamespaceBody(namespace_name) == [kind |-> "Namespace", name |-> namespace_name]
\* create_configmap, 27-35.
ConfigMapBody ==
    [kind |-> "ConfigMap", name |-> "monitoring-app-config",
     data |-> [k \in {"FLASK_ENV", "REFRESH_INTERVAL"} |->
                 IF k = "FLASK_ENV" THEN "production" ELSE "30"]]
\* create_deployment, 51-117.
DeploymentBody(image) ==
    [kind |-> "Deployment", name |-> "monitoring-app", replicas |-> 2,
     image |-> image, containerPort |-> 5000,
     env |-> [name |-> "FLASK_ENV",
              config_map_key_ref |-> [name |-> "monitoring-app-config",
                                      key |-> "FLASK_ENV"]],
     probePath |-> "/health", probePort |-> 5000]
\* create_service, 133-150.
ServiceBody ==
    [kind |-> "Service", name |-> "monitoring-app-service",
     type |-> "LoadBalancer", port |-> 80, target_port |-> 5000]
\* create_hpa, 166-189.
HpaBody ==
    [kind |-> "AutoscalingPolicy", name |-> "monitoring-app-hpa",
     scale_target_ref |-> [api_version |-> "apps/v1", kind |-> "Deployment",
                           name |-> "monitoring-app"],
     min_replicas |-> 1, max_replicas |-> 5, average_utilization |-> 70]

Body(kind) ==
    CASE kind = "Namespace"         -> NamespaceBody(namespace_arg(kind))
      [] kind = "ConfigMap"         -> ConfigMapBody
      [] kind = "Deployment"        -> DeploymentBody(image_uri)
      [] kind = "Service"           -> ServiceBody
      [] kind = "AutoscalingPolicy" -> HpaBody

\* What the cluster stores for a kind: nothing, an object that was there
\* before any run (its content is not the provisioner's), or a submitted body.
Absent == [kind |-> "absent"]
Preexisting(kind) == [kind |-> kind, origin |-> "preexisting"]

\* Mutant: the 409 branch replaces the existing object with the body.
on_conflict_replace(kind) == "replace"

\* What the `if e.status == 409:` branch of a create_* function does besides
\* printing (44-45, 126-127, 159-160, 199-200): nothing, no call is made.
on_conflict(kind) == "nothing"

\* One create_* function called from main() in state s: the API call is
\* issued through client `api`, answered with outcome o, handled with result r.
CreateStep(p, s, kind, api, o, r) ==
    /\ cluster' = Applied(cluster, kind, o)
    /\ objects' = [objects EXCEPT ![kind] =
                     IF o = Returned(201) THEN Body(kind)
                     ELSE IF r = "exists" /\ on_conflict(kind) = "replace"
                          THEN Body(kind)
                          ELSE @]
    /\ calls' = [calls EXCEPT ![p] =
                   Append(@, [op |-> CreateOp(kind), ns |-> namespace_arg(kind),
                              body |-> Body(kind), api |-> api, o |-> o])]
    /\ out' = [out EXCEPT ![p] = @ \o LinesAfter(s, kind, r)]
    /\ pc' = [pc EXCEPT ![p] = PcAfter(s, r)]
    /\ failedIn' = [failedIn EXCEPT ![p] = IF r = "raise" THEN s ELSE @]
    /\ UNCHANGED <<runNo, startCluster, prev>>
    /\ UNCHANGED appVars

\* The summary kept of a finished run.
NoRun == [result |-> "none", failedIn |-> "none", clean |-> TRUE,
          startCluster |-> {}, endCluster |-> {}, created |-> {}]

\* A run's calls met no failure other than 404 on the namespace read and 409
\* on a create.
Expected(c) ==
    \/ c.o.exc = "none"
    \/ c.op = "getNamespace" /\ c.o = ApiException(404)
    \/ c.op # "getNamespace" /\ c.o = ApiException(409)
Clean(cs) == \A i \in DOMAIN cs : Expected(cs[i])

\* The kinds a run's calls created.
Created(cs) ==
    {k \in KindSet : \E i \in DOMAIN cs :
        cs[i].op = CreateOp(k) /\ cs[i].o = Returned(201)}

Summary(p) ==
    [result |-> pc[p], failedIn |-> failedIn[p],
     clean |-> Clean(calls[p]) /\ failedIn[p] # "LoadingConfig",
     startCluster |-> startCluster[p], endCluster |-> cluster,
     created |-> Created(calls[p])]

\* main(), 204-217: load the configuration, build the clients, print the
\* start line.  load_kube_config (5-10) raises when neither the in-cluster
\* nor the local configuration can be loaded, before any call is made.
main(p) ==
    /\ pc[p] \in {"Idle", "Done", "Aborted"}
    /\ runNo[p] < MaxRuns
    /\ \E loaded \in BOOLEAN :
         /\ pc' = [pc EXCEPT ![p] =
                     IF loaded THEN "CreatingNamespace" ELSE "Aborted"]
         /\ failedIn' = [failedIn EXCEPT ![p] =
                           IF loaded THEN "none" ELSE "LoadingConfig"]
         /\ out' = [out EXCEPT ![p] = IF loaded THEN <<StartLine>> ELSE <<>>]
    /\ runNo' = [runNo EXCEPT ![p] = @ + 1]
    /\ prev' = [prev EXCEPT ![p] = IF runNo[p] = 0 THEN NoRun ELSE Summary(p)]
    /\ startCluster' = [startCluster EXCEPT ![p] = cluster]
    /\ calls' = [calls EXCEPT ![p] = <<>>]
    /\ UNCHANGED <<cluster, objects>>
    /\ UNCHANGED appVars

\* create_namespace(core_v1, namespace), 14-18: the existence probe.
read_namespace(p) ==
    /\ pc[p] = "CreatingNamespace"
    /\ \E o \in ReadOutcomes(cluster) :
         LET r == read_namespace_result(o) IN
         /\ calls' = [calls EXCEPT ![p] =
                        Append(@, [op |-> "getNamespace",
                                   ns |-> namespace_arg("Namespace"),
                                   body |-> Absent,
                                   api |-> "CoreV1Api", o |-> o])]
         /\ out' = [out EXCEPT ![p] =
                      IF r = "exists" THEN Append(@, ExistsLine("Namespace"))
                      ELSE @]
         /\ pc' = [pc EXCEPT ![p] =
                     IF r = "create" THEN "NamespaceNotFound"
                     ELSE PcAfter("CreatingNamespace", r)]
         /\ failedIn' = [failedIn EXCEPT ![p] =
                           IF r = "raise" THEN "CreatingNamespace" ELSE @]
    /\ UNCHANGED <<cluster, objects, runNo, startCluster, prev>>
    /\ UNCHANGED appVars

\* create_namespace, 19-23: the create issued from inside the except block.
create_namespace(p) ==
    /\ pc[p] = "NamespaceNotFound"
    /\ \E o \in CreateOutcomes(cluster, "Namespace") :
         CreateStep(p, "CreatingNamespace", "Namespace", "CoreV1Api", o,
                    create_namespace_result(o))

\* create_configmap(core_v1, namespace), 25-47.
create_configmap(p) ==
    /\ pc[p] = "CreatingConfig"
    /\ \E o \in CreateOutcomes(cluster, "ConfigMap") :
         CreateStep(p, "CreatingConfig", "ConfigMap", "CoreV1Api", o,
                    create_configmap_result(o))

\* create_deployment(apps_v1, namespace, image_uri), 49-129.
create_deployment(p) ==
    /\ pc[p] = "CreatingDeployment"
    /\ \E o \in CreateOutcomes(cluster, "Deployment") :
         CreateStep(p, "CreatingDeployment", "Deployment", "AppsV1Api", o,
                    create_deployment_result(o))

\* create_service(core_v1, namespace), 131-162.
create_service(p) ==
    /\ pc[p] = "CreatingService"
    /\ \E o \in CreateOutcomes(cluster, "Service") :
         CreateStep(p, "CreatingService", "Service", "CoreV1Api", o,
                    create_service_result(o))

\* create_hpa(None, namespace), 164-202.  A call through None would raise
\* AttributeError before anything is submitted.
create_hpa(p) ==
    /\ pc[p] = "CreatingAutoscaler"
    /\ LET api == create_hpa_client("None") IN
       IF api = "None"
       THEN /\ pc' = [pc EXCEPT ![p] = "Aborted"]
            /\ failedIn' = [failedIn EXCEPT ![p] = "CreatingAutoscaler"]
            /\ UNCHANGED <<cluster, objects, calls, out, runNo, startCluster,
                           prev>>
            /\ UNCHANGED appVars
       ELSE \E o \in CreateOutcomes(cluster, "AutoscalingPolicy") :
              CreateStep(p, "CreatingAutoscaler", "AutoscalingPolicy", api, o,
                         create_hpa_result(o))

\* ------------------------------------------------------ specifications
NoResponse == [route |-> "none", status |-> 0, message |-> ""]

InitApp ==
    /\ cpu_metric = 0
    /\ mem_metric = 0
    /\ disk_metric = 0
    /\ response = NoResponse

\* One process runs main() up to MaxRuns times against a cluster that holds
\* any valid set of resources.
Init ==
    /\ cluster \in {c \in SUBSET KindSet : ValidCluster(c)}
    /\ pc = [p \in Procs |-> IF p = "p1" THEN "Idle" ELSE "Off"]
    /\ runNo = [p \in Procs |-> 0]
    /\ startCluster = [p \in Procs |-> {}]
    /\ calls = [p \in Procs |-> <<>>]
    /\ out = [p \in Procs |-> <<>>]
    /\ failedIn = [p \in Procs |-> "none"]
    /\ prev = [p \in Procs |-> NoRun]
    /\ objects = [k \in KindSet |->
                    IF k \in cluster THEN Preexisting(k) ELSE Absent]
    /\ InitApp

Next ==
    \E p \in Procs :
        \/ main(p)
        \/ read_namespace(p)
        \/ create_namespace(p)
        \/ create_configmap(p)
        \/ create_deployment(p)
        \/ create_service(p)
        \/ create_hpa(p)

Spec == Init /\ [][Next]_vars

\* A fair run keeps going: main() is a sequential program, every client call
\* returns or raises, so a step that can be taken is taken.
FairSpec == Spec /\ WF_vars(Next)

\* Two processes each run main() once, interleaved call by call, against a
\* cluster that is empty to begin with.
InitRace ==
    /\ cluster = {}
    /\ pc = [p \in Procs |-> "Idle"]
    /\ runNo = [p \in Procs |-> 0]
    /\ startCluster = [p \in Procs |-> {}]
    /\ calls = [p \in Procs |-> <<>>]
    /\ out = [p \in Procs |-> <<>>]
    /\ failedIn = [p \in Procs |-> "none"]
    /\ prev = [p \in Procs |-> NoRun]
    /\ objects = [k \in KindSet |-> Absent]
    /\ InitApp

NextRace ==
    \E p \in Procs :
        \/ runNo[p] = 0 /\ main(p)
        \/ read_namespace(p)
        \/ create_namespace(p)
        \/ create_configmap(p)
        \/ create_deployment(p)
        \/ create_service(p)
        \/ create_hpa(p)

SpecRace == InitRace /\ [][NextRace]_vars

\* ------------------------------------------------------------ vocabulary
Ended(p) == pc[p] \in {"Done", "Aborted"}
Loaded(p) == runNo[p] > 0 /\ failedIn[p] # "LoadingConfig"

\* The state of main() in which the operation is called.
StateOf(op) ==
    CASE op = "getNamespace"            -> "CreatingNamespace"
      [] op = "createNamespace"         -> "CreatingNamespace"
      [] op = "createConfigMap"         -> "CreatingConfig"
      [] op = "createDeployment"        -> "CreatingDeployment"
      [] op = "createService"           -> "CreatingService"
      [] op = "createAutoscalingPolicy" -> "CreatingAutoscaler"

\* The place of the operation in the order of section 4.1.
Rank(op) ==
    CASE op = "getNamespace"            -> 1
      [] op = "createNamespace"         -> 2
      [] op = "createConfigMap"         -> 3
      [] op = "createDeployment"        -> 4
      [] op = "createService"           -> 5
      [] op = "createAutoscalingPolicy" -> 6

ConflictKinds == {"ConfigMap", "Deployment", "Service", "AutoscalingPolicy"}
ConflictOps == {CreateOp(k) : k \in ConflictKinds}

\* The two outcomes the propagation policy recovers locally: 404 on the
\* namespace read, 409 on the create of one of the four namespaced kinds.
Recovered(c) ==
    \/ c.op = "getNamespace" /\ c.o = ApiException(404)
    \/ c.op \in ConflictOps /\ c.o = ApiException(409)
Resolved(c) == c.o.exc = "none" \/ Recovered(c)

\* The call is the one the run of p aborted on, in the state it was made in.
AbortedOn(p, i) ==
    /\ i = Len(calls[p])
    /\ pc[p] = "Aborted"
    /\ failedIn[p] = StateOf(calls[p][i].op)

Count(p, op) == Cardinality({i \in DOMAIN calls[p] : calls[p][i].op = op})
Answer(p, op) == {calls[p][i].o : i \in {j \in DOMAIN calls[p] : calls[p][j].op = op}}

\* ------------------------------------------------------------------ C1
\* C1: every control-plane error other than a 409 on a create or a 404 on the
\* namespace read propagates and aborts the run in the state of the failing
\* call; in particular a getNamespace failure other than 404 aborts the run in
\* CreatingNamespace with no create call issued and Done not reached.
C1_EveryOtherErrorAborts ==
    \A p \in Procs : \A i \in DOMAIN calls[p] :
        ~Expected(calls[p][i]) => AbortedOn(p, i)

\* What does hold: every such error on a create call aborts the run.
C1_CreateErrorsAbort ==
    \A p \in Procs : \A i \in DOMAIN calls[p] :
        (calls[p][i].op # "getNamespace" /\ ~Expected(calls[p][i]))
            => AbortedOn(p, i)

\* ------------------------------------------------------------------ C2
\* C2: for every step, a create call that fails with anything but 404 or 409
\* is the last call of its run: the run is aborted in that step, no later
\* create call is issued and Done is not reached.
C2_FatalPropagation ==
    \A p \in Procs : \A i \in DOMAIN calls[p] :
        LET c == calls[p][i] IN
        (/\ c.op # "getNamespace"
         /\ c.o.exc # "none"
         /\ c.o \notin {ApiException(404), ApiException(409)})
            => /\ AbortedOn(p, i)
               /\ \A j \in DOMAIN calls[p] : Rank(calls[p][j].op) <= Rank(c.op)

C2_Witness ==
    \E p \in Procs :
        /\ pc[p] = "Aborted"
        /\ failedIn[p] = "CreatingDeployment"
        /\ Answer(p, "createConfigMap") = {Returned(201)}
        /\ Answer(p, "createDeployment") = {ApiException(500)}

\* ------------------------------------------------------------------ C3
\* C3: a 409 on the create of ConfigMap, Deployment, Service or
\* AutoscalingPolicy is reported as already-exists, the run moves to the next
\* step, and a run that ended with no other failure ended in Done.
C3_ConflictTransparency ==
    \A p \in Procs :
        /\ \A k \in ConflictKinds :
             ApiException(409) \in Answer(p, CreateOp(k))
                => /\ \E i \in DOMAIN out[p] : out[p][i] = ExistsLine(k)
                   /\ \A i \in DOMAIN out[p] : out[p][i] # CreatedLine(k)
                   /\ failedIn[p] # StateOf(CreateOp(k))
                   /\ pc[p] # StateOf(CreateOp(k))
        /\ \A i \in DOMAIN calls[p] :
             (calls[p][i].op \in ConflictOps /\ calls[p][i].o = ApiException(409)
              /\ i = Len(calls[p]))
                => pc[p] = main_next(StateOf(calls[p][i].op))
        /\ (Ended(p) /\ Loaded(p) /\ \A i \in DOMAIN calls[p] : Resolved(calls[p][i]))
                => pc[p] = "Done"

C3_Witness ==
    \E p \in Procs :
        /\ pc[p] = "Done"
        /\ Answer(p, "createConfigMap") = {ApiException(409)}
        /\ Answer(p, "createDeployment") = {Returned(201)}
        /\ Answer(p, "createService") = {ApiException(409)}
        /\ Answer(p, "createAutoscalingPolicy") = {Returned(201)}

\* ------------------------------------------------------------------ C4
\* C4: the calls of a run are issued in the order getNamespace,
\* [createNamespace], createConfigMap, createDeployment, createService,
\* createAutoscalingPolicy, each only after the call before it resolved
\* successfully or with a recovered outcome.
C4_OrderedAfterResolved ==
    \A p \in Procs : \A i \in DOMAIN calls[p] :
        /\ (i = 1) = (calls[p][i].op = "getNamespace")
        /\ i > 1 => /\ Rank(calls[p][i - 1].op) < Rank(calls[p][i].op)
                    /\ Resolved(calls[p][i - 1])

\* What does hold: the order itself, and that a create call is issued only
\* after the create call before it returned or was answered 409.
C4_OrderOnly ==
    \A p \in Procs : \A i \in DOMAIN calls[p] :
        /\ (i = 1) = (calls[p][i].op = "getNamespace")
        /\ i > 1 => /\ Rank(calls[p][i - 1].op) < Rank(calls[p][i].op)
                    /\ (i > 2 => Resolved(calls[p][i - 1]))
        /\ calls[p][i].op = "createDeployment"
              => Answer(p, "createConfigMap") \in {{Returned(201)}, {ApiException(409)}}
        /\ calls[p][i].op = "createAutoscalingPolicy"
              => Answer(p, "createDeployment") \in {{Returned(201)}, {ApiException(409)}}

\* ------------------------------------------------------------------ C5
\* The run of p went through the provisioning sequence (the configuration
\* loaded) and none of its calls failed for a reason other than 404 on the
\* read or 409 on a create.
CleanRun(p) == Loaded(p) /\ Clean(calls[p])

\* C5: when two runs in succession both ended with no call failing for a
\* reason other than 404-on-get or 409-on-create, the second run leaves the
\* cluster with exactly the resources the first run left.
C5_Idempotence ==
    \A p \in Procs :
        (/\ runNo[p] >= 2
         /\ prev[p].result \in {"Done", "Aborted"}
         /\ prev[p].clean
         /\ Ended(p)
         /\ CleanRun(p))
            => cluster = prev[p].endCluster

C5_Witness ==
    \E p \in Procs :
        /\ runNo[p] >= 2
        /\ prev[p].result = "Done"
        /\ prev[p].clean
        /\ prev[p].startCluster = {}
        /\ prev[p].created = KindSet
        /\ pc[p] = "Done"
        /\ CleanRun(p)

\* ------------------------------------------------------------------ C6
\* The current run of p started after p's previous run reached Done.
RunAfterDone(p) == runNo[p] >= 2 /\ prev[p].result = "Done" /\ Loaded(p)

\* The status lines among the printed lines, in the order printed.
StatusLines(p) ==
    SelectSeq(out[p], LAMBDA l : l \in {CreatedLine(k) : k \in KindSet}
                                      \cup {ExistsLine(k) : k \in KindSet})
AllExistLines == [i \in DOMAIN Kinds |-> ExistsLine(Kinds[i])]

\* C6 as stated: in a run that starts after a previous run reached Done, the
\* only call issued is getNamespace, and (no call failing unexpectedly) every
\* one of the five steps reports already-exists.
C6_OnlyReadProbe ==
    \A p \in Procs :
        RunAfterDone(p)
            => /\ \A i \in DOMAIN calls[p] : calls[p][i].op = "getNamespace"
               /\ (Ended(p) /\ CleanRun(p)) => StatusLines(p) = AllExistLines

\* C6 as amended: such a run changes nothing on the cluster: it never issues
\* createNamespace and no create call it issues creates anything (each is a
\* create attempt answered 409, or a control-plane failure); and when no call
\* fails unexpectedly it issues getNamespace and the four create calls, ends in
\* Done, and every one of the five steps reports already-exists.
C6_SecondRunQuiescence ==
    \A p \in Procs :
        RunAfterDone(p)
            => /\ cluster = startCluster[p]
               /\ cluster = KindSet
               /\ Count(p, "createNamespace") = 0
               /\ \A i \in DOMAIN calls[p] :
                    /\ calls[p][i].o # Returned(201)
                    /\ calls[p][i].op # "getNamespace"
                          => calls[p][i].o \in Faults \cup {ApiException(409)}
               /\ (Ended(p) /\ CleanRun(p))
                     => /\ pc[p] = "Done"
                        /\ StatusLines(p) = AllExistLines
                        /\ [i \in DOMAIN calls[p] |-> calls[p][i].op]
                             = <<"getNamespace", "createConfigMap",
                                 "createDeployment", "createService",
                                 "createAutoscalingPolicy">>

C6_Witness ==
    \E p \in Procs :
        /\ RunAfterDone(p)
        /\ pc[p] = "Done"
        /\ CleanRun(p)
        /\ Answer(p, "createAutoscalingPolicy") = {ApiException(409)}

\* ------------------------------------------------------------------ C7
\* The namespace step of p's current run is over.
PastNamespaceStep(p) ==
    calls[p] # <<>> /\ pc[p] \notin {"CreatingNamespace", "NamespaceNotFound"}

\* C7: once the namespace step is over, exactly one createNamespace call was
\* issued if getNamespace was answered 404 and none if it returned the
\* namespace; a createNamespace call only ever follows the answered
\* getNamespace call.
C7_NamespaceSpecialCase ==
    \A p \in Procs :
        /\ PastNamespaceStep(p)
              => /\ Answer(p, "getNamespace") = {ApiException(404)}
                    => Count(p, "createNamespace") = 1
                 /\ Answer(p, "getNamespace") = {Returned(200)}
                    => Count(p, "createNamespace") = 0
        /\ pc[p] = "NamespaceNotFound"
              => /\ Answer(p, "getNamespace") = {ApiException(404)}
                 /\ Count(p, "createNamespace") = 0
        /\ \A i \in DOMAIN calls[p] :
             calls[p][i].op = "createNamespace"
                => i = 2 /\ calls[p][1].op = "getNamespace"
                         /\ calls[p][1].o = ApiException(404)

C7_Witness ==
    \E p \in Procs :
        /\ PastNamespaceStep(p)
        /\ Answer(p, "getNamespace") = {ApiException(404)}
        /\ Answer(p, "createNamespace") = {Returned(201)}
        /\ pc[p] = "CreatingConfig"

\* ------------------------------------------------------------------ C8
\* The step for `kind` ended in created or in already-exists: it printed
\* exactly one of its two status lines.
StepReported(p, kind) ==
    Cardinality({i \in DOMAIN out[p] :
                   out[p][i] \in {CreatedLine(kind), ExistsLine(kind)}}) = 1

\* C8: when a run is in Done, each of the five steps ended in created or
\* already-exists, all five resources exist, and the AutoscalingPolicy create
\* call was submitted to the control plane through a real client.
C8_DonePostcondition ==
    \A p \in Procs :
        pc[p] = "Done"
            => /\ \A k \in KindSet : StepReported(p, k)
               /\ cluster = KindSet
               /\ \E i \in DOMAIN calls[p] :
                    /\ calls[p][i].op = "createAutoscalingPolicy"
                    /\ calls[p][i].api # "None"

\* What does hold: at Done all five resources exist, the four steps after the
\* namespace step each reported, and the AutoscalingPolicy call was submitted.
C8_DoneAllExist ==
    \A p \in Procs :
        pc[p] = "Done"
            => /\ \A k \in ConflictKinds : StepReported(p, k)
               /\ cluster = KindSet
               /\ \E i \in DOMAIN calls[p] :
                    /\ calls[p][i].op = "createAutoscalingPolicy"
                    /\ calls[p][i].api # "None"

\* ------------------------------------------------------------------ C9
\* The current run of p is a re-run after an aborted run.
Rerun(p) == runNo[p] >= 2 /\ prev[p].result = "Aborted" /\ Loaded(p)

C9_RecoveryInv ==
    \A p \in Procs :
        (Rerun(p) /\ Ended(p) /\ CleanRun(p))
            => /\ pc[p] = "Done"
               /\ cluster = KindSet
               /\ Created(calls[p]) = KindSet \ startCluster[p]

\* C9: a re-run after an aborted run in which no call fails for a reason
\* other than 404-on-get or 409-on-create reaches Done, and at Done all five
\* resources exist and the re-run created exactly the resources that were
\* missing when it started.
C9_RecoveryByRerun ==
    /\ []C9_RecoveryInv
    /\ \A p \in Procs : Rerun(p) ~> (pc[p] = "Done" \/ ~CleanRun(p))

C9_Witness ==
    \E p \in Procs :
        /\ Rerun(p)
        /\ prev[p].failedIn = "CreatingDeployment"
        /\ prev[p].created = {"Namespace", "ConfigMap"}
        /\ pc[p] = "Done"
        /\ CleanRun(p)
        /\ Created(calls[p]) = {"Deployment", "Service", "AutoscalingPolicy"}

\* ------------------------------------------------------------- app.py
\* Utilization percentages carry one decimal (psutil reports them so, and
\* get_disk_usage rounds to one): they are kept in tenths of a percent.
Pct(n) == n * 10

\* The sampled values: 0, 100 and both sides of each threshold.
MetricValues == {Pct(0), Pct(60) - 1, Pct(60), Pct(60) + 1,
                 Pct(80) - 1, Pct(80), Pct(80) + 1, Pct(100)}

critical_threshold == 80
warning_threshold == 60

\* Mutant: the thresholds are compared with >=.
classify_ge(metric) ==
    IF metric >= Pct(critical_threshold) THEN "critical"
    ELSE IF metric >= Pct(warning_threshold) THEN "warning"
    ELSE "normal"

\* get_alert_message, 54-57 (and 59-62, 64-67): the if/elif on one metric.
classify(metric) ==
    IF metric > Pct(critical_threshold) THEN "critical"
    ELSE IF metric > Pct(warning_threshold) THEN "warning"
    ELSE "normal"

\* The names appended to a list, in the order the three if/elif blocks run.
services(level, cpu, mem, disk) ==
    (IF classify(cpu) = level THEN <<"CPU">> ELSE <<>>)
    \o (IF classify(mem) = level THEN <<"Memory">> ELSE <<>>)
    \o (IF classify(disk) = level THEN <<"Disk">> ELSE <<>>)

\* ', '.join(names)
RECURSIVE Join(_, _)
Join(names, sep) ==
    IF names = <<>> THEN ""
    ELSE IF Len(names) = 1 THEN names[1]
    ELSE names[1] \o sep \o Join(Tail(names), sep)

\* The three messages; the emoji that opens each is written as its code point.
CriticalMessage(names) ==
    "(U+1F6A8) CRITICAL: High " \o Join(names, ", ")
        \o " usage detected! Consider scaling up or optimizing resources."
WarningMessage(names) ==
    "(U+26A0 U+FE0F) WARNING: Elevated " \o Join(names, ", ")
        \o " usage detected. Monitor closely."
NominalMessage == "(U+2705) All systems operating normally."
ErrorMessage == "Error retrieving system metrics"

\* Mutant: the critical alert lists the warning-level metrics as well.
get_alert_message_all_elevated(cpu, mem, disk) ==
    LET critical_services == services("critical", cpu, mem, disk)
        warning_services == services("warning", cpu, mem, disk)
    IN  IF critical_services # <<>>
        THEN CriticalMessage(critical_services \o warning_services)
        ELSE IF warning_services # <<>> THEN WarningMessage(warning_services)
        ELSE NominalMessage

\* get_alert_message(cpu_metric, mem_metric, disk_metric), 46-74.
get_alert_message(cpu, mem, disk) ==
    LET critical_services == services("critical", cpu, mem, disk)
        warning_services == services("warning", cpu, mem, disk)
    IN  IF critical_services # <<>> THEN CriticalMessage(critical_services)
        ELSE IF warning_services # <<>> THEN WarningMessage(warning_services)
        ELSE NominalMessage

\* index(), 76-114: sample the metrics and render the dashboard with the
\* alert message; on any exception render zeros and the error message.
index ==
    /\ \E cpu \in MetricValues, mem \in MetricValues, disk \in MetricValues,
          ok \in BOOLEAN :
         /\ cpu_metric' = IF ok THEN cpu ELSE 0
         /\ mem_metric' = IF ok THEN mem ELSE 0
         /\ disk_metric' = IF ok THEN disk ELSE 0
         /\ response' = [route |-> "/", status |-> 200,
                         message |-> IF ok THEN get_alert_message(cpu, mem, disk)
                                     ELSE ErrorMessage]
    /\ UNCHANGED provVars

\* health_check, 143: the limit both utilizations are compared with.
health_limit == 95

\* The values health_check samples: 0, 100 and both sides of the limit.
HealthValues == {Pct(0), Pct(health_limit) - 1, Pct(health_limit),
                 Pct(health_limit) + 1, Pct(100)}

HealthyBody == "healthy"
HighUsageBody == "unhealthy: High resource usage"
ExceptionBody == "unhealthy: str(e)"

\* Mutant: a utilization equal to the limit still counts as healthy.
health_status_le(cpu, mem) ==
    IF cpu <= Pct(health_limit) /\ mem <= Pct(health_limit)
    THEN [route |-> "/health", status |-> 200, message |-> HealthyBody]
    ELSE [route |-> "/health", status |-> 503, message |-> HighUsageBody]

\* health_check, 143-146: the answer for the sampled values.
health_status(cpu, mem) ==
    IF cpu < Pct(health_limit) /\ mem < Pct(health_limit)
    THEN [route |-> "/health", status |-> 200, message |-> HealthyBody]
    ELSE [route |-> "/health", status |-> 503, message |-> HighUsageBody]

\* health_check(), 135-149: sample CPU and memory and answer; when the
\* metrics query raises, nothing was sampled and the answer is 503 (147-149).
health_check ==
    /\ \E cpu \in HealthValues, mem \in HealthValues, ok \in BOOLEAN :
         /\ cpu_metric' = IF ok THEN cpu ELSE cpu_metric
         /\ mem_metric' = IF ok THEN mem ELSE mem_metric
         /\ response' = IF ok THEN health_status(cpu, mem)
                        ELSE [route |-> "/health", status |-> 503,
                              message |-> ExceptionBody]
    /\ UNCHANGED disk_metric
    /\ UNCHANGED provVars

\* The monitoring service answering requests; no provisioner runs.
InitService ==
    /\ cluster = {}
    /\ pc = [p \in Procs |-> "Off"]
    /\ runNo = [p \in Procs |-> 0]
    /\ startCluster = [p \in Procs |-> {}]
    /\ calls = [p \in Procs |-> <<>>]
    /\ out = [p \in Procs |-> <<>>]
    /\ failedIn = [p \in Procs |-> "none"]
    /\ prev = [p \in Procs |-> NoRun]
    /\ objects = [k \in KindSet |->
                    IF k \in cluster THEN Preexisting(k) ELSE Absent]
    /\ InitApp

NextService == index \/ health_check

SpecService == InitService /\ [][NextService]_vars

\* ----------------------------------------------------------------- C10
\* The non-empty lists of metric names, in the order CPU, Memory, Disk.
NameLists ==
    {<<"CPU">>, <<"Memory">>, <<"Disk">>, <<"CPU", "Memory">>,
     <<"CPU", "Disk">>, <<"Memory", "Disk">>, <<"CPU", "Memory", "Disk">>}
CriticalMessages == {CriticalMessage(n) : n \in NameLists}
WarningMessages == {WarningMessage(n) : n \in NameLists}

Sampled == {cpu_metric, mem_metric, disk_metric}
Alerted == response.route = "/" /\ response.message # ErrorMessage

\* C10: the message is the critical message iff some metric is > 80, the
\* warning message iff none is > 80 and some metric is > 60, and the nominal
\* message otherwise; 80 itself is warning and 60 itself is normal.
C10_AlertTier ==
    Alerted =>
        /\ response.message \in CriticalMessages
              <=> \E m \in Sampled : m > 800
        /\ response.message \in WarningMessages
              <=> /\ \A m \in Sampled : m <= 800
                  /\ \E m \in Sampled : m > 600
        /\ response.message = NominalMessage
              <=> \A m \in Sampled : m <= 600
        /\ response.message \in
              CriticalMessages \cup WarningMessages \cup {NominalMessage}

C10_Witness ==
    /\ Alerted
    /\ cpu_metric = 800
    /\ mem_metric = 600
    /\ disk_metric = 0
    /\ response.message \in WarningMessages

\* ----------------------------------------------------------------- C11
MetricNames == <<"CPU", "Memory", "Disk">>
MetricOf(name) ==
    CASE name = "CPU"    -> cpu_metric
      [] name = "Memory" -> mem_metric
      [] name = "Disk"   -> disk_metric

\* The metric names, in the order CPU, Memory, Disk, whose sampled value is
\* above 80, and those whose value is above 60 and at most 80.
NamesAbove80 == SelectSeq(MetricNames, LAMBDA n : MetricOf(n) > 800)
NamesAbove60 ==
    SelectSeq(MetricNames, LAMBDA n : MetricOf(n) > 600 /\ MetricOf(n) <= 800)

\* C11: the critical message names exactly the metrics that are > 80, in the
\* order CPU, Memory, Disk, so warning-level metrics are not mentioned beside
\* a critical one; the warning message names exactly the metrics that are
\* > 60 and <= 80, in the same order.
C11_AlertNames ==
    Alerted =>
        /\ NamesAbove80 # <<>>
              => response.message = CriticalMessage(NamesAbove80)
        /\ (NamesAbove80 = <<>> /\ NamesAbove60 # <<>>)
              => response.message = WarningMessage(NamesAbove60)

\* CPU critical, Memory at warning level, Disk normal: only CPU is named.
C11_Witness ==
    /\ Alerted
    /\ cpu_metric = 801
    /\ mem_metric = 601
    /\ disk_metric = 0
    /\ response.message = CriticalMessage(<<"CPU">>)

\* ----------------------------------------------------------------- C12
HealthAnswered == response.route = "/health"
QueryRaised == response.message = ExceptionBody

\* C12: health_check answers 200 or 503; it answers 503 exactly when the
\* metrics query raised or the sampled CPU or memory utilization is 95 or
\* more, and 200 exactly when both samples are below 95.
C12_HealthEndpoint ==
    HealthAnswered =>
        /\ response.status \in {200, 503}
        /\ response.status = 503
              <=> (QueryRaised \/ cpu_metric >= 950 \/ mem_metric >= 950)

\* Memory exactly at 95 with an idle CPU is answered 503.
C12_Witness ==
    /\ HealthAnswered
    /\ ~QueryRaised
    /\ cpu_metric = 0
    /\ mem_metric = 950
    /\ response.status = 503

\* ----------------------------------------------------------------- C13
AllOps == {"getNamespace"} \cup {CreateOp(k) : k \in KindSet}

\* The run of p is under way: main() is in one of its steps.
InRun(p) == pc[p] \notin {"Off", "Idle", "Done", "Aborted"}

C13_AtMostOnce ==
    \A p \in Procs :
        /\ \A op \in AllOps : Count(p, op) <= 1
        /\ \A i \in DOMAIN calls[p] : calls[p][i].op \in AllOps
        /\ Len(calls[p]) <= 6

\* C13: within a run each of the six control-plane operations is invoked at
\* most once whatever the control plane answers, so a run makes at most six
\* calls; and every run that is under way ends, in Done or in Aborted.
C13_NoRetryBoundedRun ==
    /\ []C13_AtMostOnce
    /\ \A p \in Procs : InRun(p) ~> Ended(p)

\* A run that made all six calls and ended.
C13_Witness ==
    \E p \in Procs :
        /\ Ended(p)
        /\ Len(calls[p]) = 6
        /\ \A op \in AllOps : Count(p, op) = 1

\* ----------------------------------------------------------------- C14
\* The number of the step main() is in; 6 once all five steps are passed.
StepNo(s) ==
    CASE s \in {"CreatingNamespace", "NamespaceNotFound"} -> 1
      [] s = "CreatingConfig"     -> 2
      [] s = "CreatingDeployment" -> 3
      [] s = "CreatingService"    -> 4
      [] s = "CreatingAutoscaler" -> 5
      [] s = "Done"               -> 6
      [] OTHER                    -> 0

\* The step the run of p is in, or was in when it aborted.
Position(p) == IF pc[p] = "Aborted" THEN StepNo(failedIn[p]) ELSE StepNo(pc[p])

\* The status lines of the step for `kind`, in the order printed.
LinesOf(p, kind) ==
    SelectSeq(out[p], LAMBDA l : l \in {CreatedLine(kind), ExistsLine(kind)})

\* The step's resource was found to exist: the namespace read returned, or
\* the create was answered 409.
FoundToExist(p, kind) ==
    IF kind = "Namespace"
    THEN Answer(p, "getNamespace") = {Returned(200)}
    ELSE Answer(p, CreateOp(kind)) = {ApiException(409)}

\* Step i of the run of p reports as it should: one line if the run moved
\* past it, the created line iff its create call succeeded and the
\* already-exists line iff the resource was found to exist; none otherwise.
StepReports(p, i) ==
    LET k == Kinds[i] IN
    IF i < Position(p)
    THEN /\ Len(LinesOf(p, k)) = 1
         /\ LinesOf(p, k)[1] = CreatedLine(k)
               <=> Answer(p, CreateOp(k)) = {Returned(201)}
         /\ LinesOf(p, k)[1] = ExistsLine(k) <=> FoundToExist(p, k)
    ELSE LinesOf(p, k) = <<>>

FiveLinesInOrder(p) ==
    /\ Len(StatusLines(p)) = 5
    /\ \A i \in 1..5 :
         StatusLines(p)[i] \in {CreatedLine(Kinds[i]), ExistsLine(Kinds[i])}

\* C14: every step the run moved past printed exactly one status line,
\* created iff its create succeeded and already-exists iff the resource was
\* found to exist; a step that aborted printed none; a run in Done has
\* printed exactly five status lines, in step order.
C14_StatusReporting ==
    \A p \in Procs :
        /\ \A i \in 1..5 : StepReports(p, i)
        /\ pc[p] = "Done" => FiveLinesInOrder(p)

\* The namespace read of the run of p was answered with an ApiException other
\* than 404, which create_namespace swallows.
ReadSwallowed(p) ==
    \E o \in Answer(p, "getNamespace") : read_namespace_result(o) = "silent"

\* What does hold: the same, for every step but a namespace step whose read
\* failure was swallowed.
C14_ReportingButSwallowed ==
    \A p \in Procs :
        /\ \A i \in 1..5 : (i = 1 /\ ReadSwallowed(p)) \/ StepReports(p, i)
        /\ (pc[p] = "Done" /\ ~ReadSwallowed(p)) => FiveLinesInOrder(p)
        /\ (pc[p] = "Done" /\ ReadSwallowed(p))
              => /\ Len(StatusLines(p)) = 4
                 /\ LinesOf(p, "Namespace") = <<>>

\* ----------------------------------------------------------------- C15
\* A step neither removes a resource nor changes a stored object.
GrowOnly ==
    /\ cluster \subseteq cluster'
    /\ \A k \in KindSet : objects[k] # Absent => objects'[k] = objects[k]

\* Whatever state a run is in, aborted included, the resources that existed
\* when it started and those it created are on the cluster, and the only
\* operations it called are the read probe and the five creates.
C15_Kept ==
    /\ cluster = {k \in KindSet : objects[k] # Absent}
    /\ \A p \in Procs :
         /\ startCluster[p] \cup Created(calls[p]) \subseteq cluster
         /\ \A i \in DOMAIN calls[p] : calls[p][i].op \in AllOps

\* C15: no step of any run deletes or changes a resource: the set of
\* existing resources only grows, a stored object is never changed, the
\* resources created before an abort stay, and the resources that existed
\* before a run are left as they were.
C15_NoRollbackNoMutation ==
    /\ [][GrowOnly]_vars
    /\ []C15_Kept

\* A run aborted in the Service step: the pre-existing namespace is as it
\* was, the ConfigMap and Deployment it created are kept.
C15_Witness ==
    \E p \in Procs :
        /\ pc[p] = "Aborted"
        /\ failedIn[p] = "CreatingService"
        /\ startCluster[p] = {"Namespace"}
        /\ objects["Namespace"] = Preexisting("Namespace")
        /\ Created(calls[p]) = {"ConfigMap", "Deployment"}
        /\ cluster = {"Namespace", "ConfigMap", "Deployment"}

\* ----------------------------------------------------------------- C16
\* The calls of the run of p made with operation op.
CallsOf(p, op) == {calls[p][i] : i \in {j \in DOMAIN calls[p] : calls[p][j].op = op}}

\* C16: in every run every create call is made in the namespace named in
\* the namespace read (and created under that name); the ConfigMap the
\* Deployment's environment variable refers to is the submitted ConfigMap,
\* monitoring-app-config, and its key, FLASK_ENV, is one that ConfigMap
\* defines; the AutoscalingPolicy's scale target is the submitted Deployment,
\* monitoring-app.
C16_ReferentialIntegrity ==
    \A p \in Procs :
        /\ \A i \in DOMAIN calls[p] : calls[p][i].ns = calls[p][1].ns
        /\ \A c \in CallsOf(p, "createNamespace") : c.body.name = calls[p][1].ns
        /\ \A d \in CallsOf(p, "createDeployment") :
             /\ d.body.env.config_map_key_ref =
                   [name |-> "monitoring-app-config", key |-> "FLASK_ENV"]
             /\ \E c \in CallsOf(p, "createConfigMap") :
                  /\ d.body.env.config_map_key_ref.name = c.body.name
                  /\ d.body.env.config_map_key_ref.key \in DOMAIN c.body.data
        /\ \A h \in CallsOf(p, "createAutoscalingPolicy") :
             /\ h.body.scale_target_ref.name = "monitoring-app"
             /\ \E d \in CallsOf(p, "createDeployment") :
                  /\ h.body.scale_target_ref.name = d.body.name
                  /\ h.body.scale_target_ref.kind = d.body.kind

\* A run from an empty cluster that created all five: what is stored refers
\* to what is stored.
C16_Witness ==
    \E p \in Procs :
        /\ pc[p] = "Done"
        /\ Created(calls[p]) = KindSet
        /\ objects["Deployment"].env.config_map_key_ref.name
              = objects["ConfigMap"].name
        /\ objects["AutoscalingPolicy"].scale_target_ref.name
              = objects["Deployment"].name
        /\ \A i \in DOMAIN calls[p] : calls[p][i].ns = objects["Namespace"].name

\* ----------------------------------------------------------------- C17
\* The namespace read of the run of p was answered 404.
ProbeNotFound(p) == Answer(p, "getNamespace") = {ApiException(404)}

\* The run of p got past the namespace step.
PastNamespace(p) == Position(p) > 1

\* C17: a 409 on createNamespace is not recovered: the run that gets it is
\* aborted in CreatingNamespace, createNamespace is its last call and
\* createConfigMap is never issued, while the namespace exists; so of two
\* interleaved runs from an empty cluster whose probes were both answered
\* 404, at most one gets past the namespace step.
C17_NamespaceCreateRace ==
    /\ \A p \in Procs :
         ApiException(409) \in Answer(p, "createNamespace")
            => /\ pc[p] = "Aborted"
               /\ failedIn[p] = "CreatingNamespace"
               /\ Len(calls[p]) = 2
               /\ Count(p, "createConfigMap") = 0
               /\ LinesOf(p, "Namespace") = <<>>
               /\ "Namespace" \in cluster
    /\ (\A p \in Procs : ProbeNotFound(p))
          => Cardinality({p \in Procs : PastNamespace(p)}) <= 1

\* Both probes answered 404; p1 created the namespace and went on, p2 was
\* answered 409 and is aborted.
C17_Witness ==
    /\ ProbeNotFound("p1") /\ ProbeNotFound("p2")
    /\ Answer("p1", "createNamespace") = {Returned(201)}
    /\ PastNamespace("p1")
    /\ Answer("p2", "createNamespace") = {ApiException(409)}
    /\ pc["p2"] = "Aborted"
    /\ "Namespace" \in cluster
====
